---- MODULE Spec2Model ----
(***************************************************************************)
(* A model of the lesson designer of src/app/main.py: the sample selector, *)
(* the festival matcher with the Hebrew calendar arithmetic it calls, the  *)
(* congregation context resolver, the narrative composer, the slide        *)
(* structurer, the runtime estimator and the /api/generate handler.        *)
(*                                                                         *)
(* Python values are modelled as follows.                                  *)
(*   str        a sequence of tokens; a token is one character ("a", "B")  *)
(*              or one fixed piece of text of the program or its data      *)
(*   None / str an optional: None, or Some(s)                              *)
(*   datetime   [ord, secs, aware]: the proleptic Gregorian ordinal of the *)
(*              day (date.toordinal), the seconds since midnight, and      *)
(*              whether the value carries a tzinfo                         *)
(*   a call     Ok(v) when it returns v, Raise(e) when exception e leaves  *)
(*              it                                                         *)
(***************************************************************************)
EXTENDS Integers, Sequences, FiniteSets, TLC

VARIABLES ETCBC_SAMPLES, CONG_CALENDAR, now, call, ret, prev

vars == <<ETCBC_SAMPLES, CONG_CALENDAR, now, call, ret, prev>>

----------------------------------------------------------------------------
(* Python values *)

None == [isNone |-> TRUE, v |-> <<>>]

Some(s) == [isNone |-> FALSE, v |-> s]

\* Python truthiness of an Optional[str]: None and "" are both false.
Truthy(o) == ~o.isNone /\ o.v # <<>>

\* (o or ""): the string, or the empty string for None.
OrEmpty(o) == IF o.isNone THEN <<>> ELSE o.v

Ok(v) == [exc |-> "", val |-> v]

Raise(e) == [exc |-> e, val |-> <<>>]

Max(a, b) == IF a >= b THEN a ELSE b

Abs(a) == IF a >= 0 THEN a ELSE -a

----------------------------------------------------------------------------
(* str *)

\* str.lower() on one token: the characters and the fixed texts that are not
\* already lowercase.
LowerTable ==
    [t \in {"A", "B", "Renewal", "Retreat", "Genesis",
             "Celebrates redemption from Egypt and anticipates ultimate deliverance.",
             "Calls to remove leaven-symbolizing holiness and readiness.",
             "Remembers Torah giving and the Spirit's empowering.",
             "Invites reflection, repentance, and attentiveness to God's voice.",
             "Centers on atonement and God's mercy.",
             "Highlights God's provision in wilderness journeys.",
             "Celebrates dedication and faithful witness.",
             "Recounts God's hidden deliverance in Esther's story."} |->
        CASE t = "A" -> "a"
          [] t = "B" -> "b"
          [] t = "Renewal" -> "renewal"
          [] t = "Retreat" -> "retreat"
          [] t = "Genesis" -> "genesis"
          [] t = "Celebrates redemption from Egypt and anticipates ultimate deliverance."
               -> "celebrates redemption from egypt and anticipates ultimate deliverance."
          [] t = "Calls to remove leaven-symbolizing holiness and readiness."
               -> "calls to remove leaven-symbolizing holiness and readiness."
          [] t = "Remembers Torah giving and the Spirit's empowering."
               -> "remembers torah giving and the spirit's empowering."
          [] t = "Invites reflection, repentance, and attentiveness to God's voice."
               -> "invites reflection, repentance, and attentiveness to god's voice."
          [] t = "Centers on atonement and God's mercy."
               -> "centers on atonement and god's mercy."
          [] t = "Highlights God's provision in wilderness journeys."
               -> "highlights god's provision in wilderness journeys."
          [] t = "Celebrates dedication and faithful witness."
               -> "celebrates dedication and faithful witness."
          [] t = "Recounts God's hidden deliverance in Esther's story."
               -> "recounts god's hidden deliverance in esther's story."]

LowerTok(t) == IF t \in DOMAIN LowerTable THEN LowerTable[t] ELSE t

\* s.lower()
lower(s) == [i \in 1..Len(s) |-> LowerTok(s[i])]

\* needle in hay
contains(hay, needle) ==
    \E i \in 0..(Len(hay) - Len(needle)) : SubSeq(hay, i + 1, i + Len(needle)) = needle

\* s.strip(): leading and trailing whitespace removed.
RECURSIVE strip(_)
strip(s) ==
    IF s = <<>> THEN s
    ELSE IF Head(s) = " " THEN strip(Tail(s))
    ELSE IF s[Len(s)] = " " THEN strip(SubSeq(s, 1, Len(s) - 1))
    ELSE s

\* Every string of at most n tokens over the alphabet.
StringsUpTo(alphabet, n) == UNION {[1..k -> alphabet] : k \in 0..n}

----------------------------------------------------------------------------
(* The proleptic Gregorian calendar of datetime: date.toordinal and       *)
(* date.fromordinal, 0001-01-01 being day 1.                               *)

IsLeapYear(y) == (y % 4 = 0) /\ ((y % 100 # 0) \/ (y % 400 = 0))

DaysInMonth(y, m) ==
    IF m = 2 THEN (IF IsLeapYear(y) THEN 29 ELSE 28)
    ELSE IF m \in {4, 6, 9, 11} THEN 30 ELSE 31

DaysBeforeYear(y) ==
    LET p == y - 1 IN p * 365 + (p \div 4) - (p \div 100) + (p \div 400)

RECURSIVE DaysBeforeMonth(_, _)
DaysBeforeMonth(y, m) ==
    IF m <= 1 THEN 0 ELSE DaysBeforeMonth(y, m - 1) + DaysInMonth(y, m - 1)

ymd2ord(y, m, d) == DaysBeforeYear(y) + DaysBeforeMonth(y, m) + d

RECURSIVE FindYear(_, _)
FindYear(ord, y) == IF DaysBeforeYear(y + 1) >= ord THEN y ELSE FindYear(ord, y + 1)

RECURSIVE FindMonth(_, _, _)
FindMonth(y, rest, m) ==
    IF rest <= DaysInMonth(y, m) THEN m ELSE FindMonth(y, rest - DaysInMonth(y, m), m + 1)

\* date.fromordinal(ord) as <<year, month, day>>, for ord >= 1.
ord2ymd(ord) ==
    LET y == FindYear(ord, ((ord - 1) \div 366) + 1)
        rest == ord - DaysBeforeYear(y)
        m == FindMonth(y, rest, 1)
    IN <<y, m, rest - DaysBeforeMonth(y, m)>>

\* datetime.min and datetime.max as ordinals: years 1..9999.
MinOrdinal == ymd2ord(1, 1, 1)

MaxOrdinal == ymd2ord(9999, 12, 31)

----------------------------------------------------------------------------
(* convertdate.hebrew, which the festival matcher calls.  A Julian day     *)
(* number of the library is always n + 0.5; the model keeps n.  Months are *)
(* numbered from Nisan = 1; the year number changes at 1 Tishri (7).       *)

NISAN == 1

IYYAR == 2

TAMMUZ == 4

ELUL == 6

TISHRI == 7

HESHVAN == 8

KISLEV == 9

TEVETH == 10

ADAR == 12

VEADAR == 13

\* The integer part of hebrew.EPOCH = 347995.5.
HEBREW_EPOCH == 347995

\* The integer part of gregorian.EPOCH - 1 = 1721424.5: jd = ordinal + 1721424.5.
GREGORIAN_OFFSET == 1721424

leap(year) == ((year * 7) + 1) % 19 < 7

year_months(year) == IF leap(year) THEN VEADAR ELSE ADAR

delay_1(year) ==
    LET months == ((235 * year) - 234) \div 19
        parts == 12084 + (13753 * months)
        day == (months * 29) + (parts \div 25920)
    IN IF (3 * (day + 1)) % 7 < 3 THEN day + 1 ELSE day

delay_2(year) ==
    LET last == delay_1(year - 1)
        present == delay_1(year)
        next_ == delay_1(year + 1)
    IN IF next_ - present = 356 THEN 2
       ELSE IF present - last = 382 THEN 1
       ELSE 0

\* to_jd(year, TISHRI, 1): no month precedes Tishri in its year.
new_year_jd(year) == HEBREW_EPOCH + delay_1(year) + delay_2(year) + 1 + 1

year_days(year) == new_year_jd(year + 1) - new_year_jd(year)

month_days(year, month) ==
    IF month \in {IYYAR, TAMMUZ, ELUL, TEVETH, VEADAR} THEN 29
    ELSE IF month = ADAR /\ ~leap(year) THEN 29
    ELSE IF month = HESHVAN /\ year_days(year) % 10 # 5 THEN 29
    ELSE IF month = KISLEV /\ year_days(year) % 10 = 3 THEN 29
    ELSE 30

\* The sum of month_days(year, m) for m in range(lo, hi).
RECURSIVE months_sum(_, _, _)
months_sum(year, lo, hi) ==
    IF lo >= hi THEN 0 ELSE month_days(year, lo) + months_sum(year, lo + 1, hi)

hebrew_to_jd(year, month, day) ==
    LET base == HEBREW_EPOCH + delay_1(year) + delay_2(year) + day + 1
    IN IF month < TISHRI
       THEN base + months_sum(year, TISHRI, year_months(year) + 1)
                 + months_sum(year, NISAN, month)
       ELSE base + months_sum(year, TISHRI, month)

\* floor(k * 98496 / 35975351), the product taken factor by factor
\* (98496 = 32 * 2 * 27 * 3 * 19) so that no intermediate exceeds 32 bits.
RECURSIVE scale_div(_, _, _, _)
scale_div(q, r, factors, d) ==
    IF factors = <<>> THEN q
    ELSE LET f == Head(factors)
         IN scale_div(q * f + ((r * f) \div d), (r * f) % d, Tail(factors), d)

year_estimate(jd) ==
    LET k == jd - HEBREW_EPOCH
    IN scale_div(k \div 35975351, k % 35975351, <<32, 2, 27, 3, 19>>, 35975351)

\* The loop "while jd >= to_jd(i, TISHRI, 1): i += 1; year += 1" of from_jd.
RECURSIVE year_search(_, _, _)
year_search(jd, i, year) ==
    IF jd >= new_year_jd(i) THEN year_search(jd, i + 1, year + 1) ELSE year

\* The year hebrew.from_jd(jd) returns; the matcher discards month and day.
hebrew_year_from_jd(jd) ==
    LET count == year_estimate(jd) IN year_search(jd, count, count - 1)

\* hy of "hy, _, _ = hebrew.from_gregorian(y, m, d)", from the day's ordinal.
hebrew_year_of(ord) == hebrew_year_from_jd(ord + GREGORIAN_OFFSET)

\* The ordinal of the civil day of hebrew.to_gregorian(year, month, day).
hebrew_to_ordinal(year, month, day) == hebrew_to_jd(year, month, day) - GREGORIAN_OFFSET

----------------------------------------------------------------------------
(* datetime values *)

SecondsPerDay == 86400

DateTime(ord, secs, aware) == [ord |-> ord, secs |-> secs, aware |-> aware]

\* (a - b).days for a datetime a and a midnight datetime of ordinal b_ord:
\* timedelta normalises to 0 <= seconds < 86400, so days is the floor.
timedelta_days(a, b_ord) == (((a.ord - b_ord) * SecondsPerDay) + a.secs) \div SecondsPerDay

\* date.isoformat() of an ordinal, as tokens: YYYY-MM-DD.
isoformat(ord) ==
    LET ymd == ord2ymd(ord)
        pad(n) == IF n < 10 THEN <<"0", ToString(n)>> ELSE <<ToString(n)>>
    IN <<ToString(ymd[1]), "-">> \o pad(ymd[2]) \o <<"-">> \o pad(ymd[3])

\* The text handed to parser.isoparse, by what the parser makes of it: an ISO
\* 8601 text with its fields (secs = 0 for a date alone, tz for a "Z" or
\* "+hh:mm" suffix), a text that is no ISO 8601 date, or a JSON value that is no
\* text at all.
IsoText(y, m, d, secs, tz) == [text |-> "iso", y |-> y, m |-> m, d |-> d, secs |-> secs, tz |-> tz]

JunkText == [text |-> "junk", y |-> 0, m |-> 0, d |-> 0, secs |-> 0, tz |-> FALSE]

NotText == [text |-> "null", y |-> 0, m |-> 0, d |-> 0, secs |-> 0, tz |-> FALSE]

\* parser.isoparse: ValueError for a text that is no date or names a day that
\* does not exist, TypeError for a value that is no text.
isoparse(t) ==
    IF t.text = "null" THEN Raise("TypeError")
    ELSE IF t.text # "iso" THEN Raise("ValueError")
    ELSE IF t.y < 1 \/ t.y > 9999 \/ t.m < 1 \/ t.m > 12 THEN Raise("ValueError")
    ELSE IF t.d < 1 \/ t.d > DaysInMonth(t.y, t.m) THEN Raise("ValueError")
    ELSE Ok(DateTime(ymd2ord(t.y, t.m, t.d), t.secs, t.tz))

----------------------------------------------------------------------------
(* Festival Matcher *)

FESTIVALS == <<
    [month |-> 1, day |-> 15, name |-> "Passover (Pesach)",
     emphasis |-> "Celebrates redemption from Egypt and anticipates ultimate deliverance."],
    [month |-> 1, day |-> 21, name |-> "Feast of Unleavened Bread",
     emphasis |-> "Calls to remove leaven-symbolizing holiness and readiness."],
    [month |-> 3, day |-> 6, name |-> "Shavuot (Pentecost)",
     emphasis |-> "Remembers Torah giving and the Spirit's empowering."],
    [month |-> 7, day |-> 1, name |-> "Rosh Hashanah",
     emphasis |-> "Invites reflection, repentance, and attentiveness to God's voice."],
    [month |-> 7, day |-> 10, name |-> "Yom Kippur",
     emphasis |-> "Centers on atonement and God's mercy."],
    [month |-> 7, day |-> 15, name |-> "Sukkot",
     emphasis |-> "Highlights God's provision in wilderness journeys."],
    [month |-> 9, day |-> 25, name |-> "Hanukkah",
     emphasis |-> "Celebrates dedication and faithful witness."],
    [month |-> 12, day |-> 14, name |-> "Purim",
     emphasis |-> "Recounts God's hidden deliverance in Esther's story."] >>

\* The proximity window of both matchers, in days.
WINDOW == 21

\* "for offset in (-1, 0, 1)"
OFFSETS == <<-1, 0, 1>>

\* The key of both sorts: lambda m: m["days_apart"].
days_apart_key(m) == m.days_apart

\* A sort that is not stable: an element goes before the elements equal to it.
RECURSIVE insert_sorted_unstable(_, _)
insert_sorted_unstable(sorted_, m) ==
    IF sorted_ = <<>> THEN <<m>>
    ELSE IF days_apart_key(m) <= days_apart_key(sorted_[Len(sorted_)])
         THEN Append(insert_sorted_unstable(SubSeq(sorted_, 1, Len(sorted_) - 1), m),
                     sorted_[Len(sorted_)])
         ELSE Append(sorted_, m)

\* list.sort / sorted with a key: a stable sort, here by insertion.
RECURSIVE insert_sorted(_, _)
insert_sorted(sorted_, m) ==
    IF sorted_ = <<>> THEN <<m>>
    ELSE IF days_apart_key(m) < days_apart_key(sorted_[Len(sorted_)])
         THEN Append(insert_sorted(SubSeq(sorted_, 1, Len(sorted_) - 1), m),
                     sorted_[Len(sorted_)])
         ELSE Append(sorted_, m)

RECURSIVE sort_by_days_apart(_)
sort_by_days_apart(list) ==
    IF list = <<>> THEN <<>>
    ELSE insert_sorted(sort_by_days_apart(SubSeq(list, 1, Len(list) - 1)), list[Len(list)])

\* The try block of the loop body: the civil day of the festival in `year`, or
\* ValueError when datetime(g_year, g_month, g_day) is outside the years 1..9999.
festival_conversion(year, fest) ==
    LET ord == hebrew_to_ordinal(year, fest.month, fest.day)
    IN IF ord < MinOrdinal \/ ord > MaxOrdinal THEN Raise("ValueError") ELSE Ok(ord)

\* "if delta <= 21"
within_window(delta) == delta <= WINDOW

\* "delta = abs((gregorian_date - festival_date).days)"
festival_delta(gregorian_date, festival_ord) == Abs(timedelta_days(gregorian_date, festival_ord))

\* The two nested loops from their k-th iteration on (k = 1 .. 24, the offsets
\* outermost), `matches` being the list so far.  Subtracting the naive
\* festival_date from an aware gregorian_date raises TypeError, which nothing
\* catches.
RECURSIVE festival_loop(_, _, _, _)
festival_loop(gregorian_date, hy, k, matches) ==
    IF k > Len(OFFSETS) * Len(FESTIVALS) THEN Ok(matches)
    ELSE LET year == hy + OFFSETS[((k - 1) \div Len(FESTIVALS)) + 1]
             fest == FESTIVALS[((k - 1) % Len(FESTIVALS)) + 1]
             conv == festival_conversion(year, fest)
         IN IF conv.exc = "ValueError"
            THEN festival_loop(gregorian_date, hy, k + 1, matches)
            ELSE IF gregorian_date.aware THEN Raise("TypeError")
            ELSE LET delta == festival_delta(gregorian_date, conv.val)
                 IN IF within_window(delta)
                    THEN festival_loop(gregorian_date, hy, k + 1,
                             Append(matches,
                                    [festival |-> fest.name,
                                     emphasis |-> fest.emphasis,
                                     festival_date |-> isoformat(conv.val),
                                     days_apart |-> delta]))
                    ELSE festival_loop(gregorian_date, hy, k + 1, matches)

hebrew_festival_matches(gregorian_date) ==
    LET hy == hebrew_year_of(gregorian_date.ord)
        found == festival_loop(gregorian_date, hy, 1, <<>>)
    IN IF found.exc # "" THEN found ELSE Ok(sort_by_days_apart(found.val))

----------------------------------------------------------------------------
(* The state: the two catalogs loaded at import, the clock datetime.utcnow *)
(* reads, the call being served and what it returned (Pending until it     *)
(* has).  prev is the response to the request served before, when that was *)
(* the same request.                                                       *)

Pending == Raise("pending")

\* No earlier response to the same request.
NoPrev == [resp |-> Pending, at |-> DateTime(0, 0, FALSE)]

Call(fn, args) == [fn |-> fn, args |-> args]

Returned(fn) == call.fn = fn /\ ret.exc # "pending"

\* Reference dates: every day of RefDaySpan days from 2024-01-01 on, which
\* covers a leap and a common Hebrew year, and the first days of the year 1,
\* where festivals of the preceding Hebrew year have no datetime.
RefDaySpan == 730

EdgeDaySpan == 5

TimesOfDay == {0, 43200, 86399}

RefOrdinals ==
    {ymd2ord(2024, 1, 1) + i : i \in 0..RefDaySpan} \cup {MinOrdinal + i : i \in 0..EdgeDaySpan}

RefDates == {DateTime(o, s, a) : o \in RefOrdinals, s \in TimesOfDay, a \in BOOLEAN}

InitFestival ==
    /\ ETCBC_SAMPLES = <<>>
    /\ CONG_CALENDAR = <<>>
    /\ now = DateTime(ymd2ord(2024, 1, 1), 0, FALSE)
    /\ call \in {Call("hebrew_festival_matches", <<d>>) : d \in RefDates}
    /\ ret = Pending
    /\ prev = NoPrev

HebrewFestivalMatches ==
    /\ call.fn = "hebrew_festival_matches"
    /\ ret = Pending
    /\ ret' = hebrew_festival_matches(call.args[1])
    /\ UNCHANGED <<ETCBC_SAMPLES, CONG_CALENDAR, now, call, prev>>

NextFestival == HebrewFestivalMatches

SpecFestival == InitFestival /\ [][NextFestival]_vars

----------------------------------------------------------------------------
(* Festival Matcher: properties *)

SortedByDaysApart(list) ==
    \A i \in 1..Len(list) : \A j \in i..Len(list) : list[i].days_apart <= list[j].days_apart

\* The position in FESTIVALS of the entry a match was made from.
CatalogIndex(m) == CHOOSE k \in 1..Len(FESTIVALS) : FESTIVALS[k].name = m.festival

\* C1: the list hebrew_festival_matches returns is ordered by non-decreasing
\* days_apart, and two matches of equal days_apart stand in the order of their
\* entries in FESTIVALS.
C1_SortedStable ==
    (Returned("hebrew_festival_matches") /\ ret.exc = "") =>
        /\ SortedByDaysApart(ret.val)
        /\ \A i \in 1..Len(ret.val) : \A j \in (i + 1)..Len(ret.val) :
              ret.val[i].days_apart = ret.val[j].days_apart
                  => CatalogIndex(ret.val[i]) < CatalogIndex(ret.val[j])

\* A returned list in which two matches tie and a third is further away.
C1_Witness ==
    /\ Returned("hebrew_festival_matches") /\ ret.exc = ""
    /\ \E i, j, k \in 1..Len(ret.val) :
          /\ i < j /\ j < k
          /\ ret.val[i].days_apart = ret.val[j].days_apart
          /\ ret.val[j].days_apart < ret.val[k].days_apart

\* The festival occurrences the matcher considers for a reference date: the
\* catalog entries in the liturgical years y-1, y, y+1 whose conversion succeeds.
Occurrences(gregorian_date) ==
    LET hy == hebrew_year_of(gregorian_date.ord)
    IN {[name |-> FESTIVALS[k].name, ord |-> festival_conversion(hy + off, FESTIVALS[k]).val] :
          <<off, k>> \in {<<o, f>> \in {-1, 0, 1} \X (1..Len(FESTIVALS)) :
                            festival_conversion(hy + o, FESTIVALS[f]).exc = ""}}

IsReturned(occ, days) ==
    /\ ret.exc = ""
    /\ \E i \in 1..Len(ret.val) :
          /\ ret.val[i].festival = occ.name
          /\ ret.val[i].festival_date = isoformat(occ.ord)
          /\ ret.val[i].days_apart = days

\* C2: an occurrence whose conversion succeeds is returned if and only if the
\* number of calendar days between the reference date and its civil date is at
\* most 21, and days_apart is that number, for every reference date
\* generate_lesson hands over: with or without a time of day or a UTC offset.
C2_WindowIffReturned ==
    Returned("hebrew_festival_matches") =>
        \A occ \in Occurrences(call.args[1]) :
            LET days == Abs(call.args[1].ord - occ.ord)
            IN /\ (days <= 21) <=> (\E d \in 0..21 : IsReturned(occ, d))
               /\ days <= 21 => IsReturned(occ, days)

\* The same for the reference dates that carry no UTC offset, where it holds.
C2_NaiveWindowIffReturned ==
    (Returned("hebrew_festival_matches") /\ ~call.args[1].aware) => C2_WindowIffReturned

C2_NaiveWitness ==
    /\ Returned("hebrew_festival_matches") /\ ~call.args[1].aware
    /\ call.args[1].secs > 0
    /\ \E occ \in Occurrences(call.args[1]) : occ.ord - call.args[1].ord = 21

----------------------------------------------------------------------------
(* Sample Selector *)

\* any(normalized_topic in theme.lower() for theme in sample["themes"])
any_theme_contains(sample, normalized_topic) ==
    \E k \in 1..Len(sample.themes) : contains(lower(sample.themes[k]), normalized_topic)

\* The first loop: the first sample whose reference contains the passage, from
\* position k on; 0 when the loop ends without returning.
RECURSIVE first_passage_match(_, _, _)
first_passage_match(samples, normalized_passage, k) ==
    IF k > Len(samples) THEN 0
    ELSE IF normalized_passage # <<>>
            /\ contains(lower(samples[k].reference), normalized_passage)
         THEN k
         ELSE first_passage_match(samples, normalized_passage, k + 1)

\* The second loop, over the themes.
RECURSIVE first_topic_match(_, _, _)
first_topic_match(samples, normalized_topic, k) ==
    IF k > Len(samples) THEN 0
    ELSE IF any_theme_contains(samples[k], normalized_topic) THEN k
    ELSE first_topic_match(samples, normalized_topic, k + 1)

\* A selector that consults the topic before the passage.
select_sample_topic_first(samples, topic, passage) ==
    LET normalized_topic == lower(OrEmpty(topic))
        normalized_passage == lower(OrEmpty(passage))
        by_passage == first_passage_match(samples, normalized_passage, 1)
        by_topic == IF normalized_topic # <<>>
                    THEN first_topic_match(samples, normalized_topic, 1) ELSE 0
    IN IF by_topic > 0 THEN samples[by_topic]
       ELSE IF by_passage > 0 THEN samples[by_passage]
       ELSE samples[1]

select_sample(samples, topic, passage) ==
    LET normalized_topic == lower(OrEmpty(topic))
        normalized_passage == lower(OrEmpty(passage))
        by_passage == first_passage_match(samples, normalized_passage, 1)
        by_topic == IF normalized_topic # <<>>
                    THEN first_topic_match(samples, normalized_topic, 1) ELSE 0
    IN IF by_passage > 0 THEN samples[by_passage]
       ELSE IF by_topic > 0 THEN samples[by_topic]
       ELSE samples[1]

\* Catalog entries: the fields every sample of etcbc_samples.json carries.
Sample(reference, themes, exegetical_notes, lexical_insights) ==
    [reference |-> reference,
     book |-> <<"Genesis">>,
     hebrew_focus |-> <<"lekh-lekha">>,
     translation |-> <<"go forth">>,
     morphology |-> [part_of_speech |-> <<"verb">>, root |-> <<"hlk">>],
     exegetical_notes |-> exegetical_notes,
     lexical_insights |-> lexical_insights,
     themes |-> themes]

MaxSamples == 2

MaxQueryLen == 2

SelectorSamples ==
    {Sample(r, t, << <<"note">> >>, << <<"insight">> >>) :
        r \in {<<"A", "b">>, <<"b", "a">>},
        t \in {<<>>, << <<"a">> >>, << <<"B", "A">>, <<"b">> >>}}

\* The non-empty catalogs of at most n samples.
Catalogs(samples, n) == UNION {[1..k -> samples] : k \in 1..n}

Queries == {None} \cup {Some(q) : q \in StringsUpTo({"a", "B"}, MaxQueryLen)}

InitSelect ==
    /\ ETCBC_SAMPLES \in Catalogs(SelectorSamples, MaxSamples)
    /\ CONG_CALENDAR = <<>>
    /\ now = DateTime(ymd2ord(2024, 1, 1), 0, FALSE)
    /\ call \in {Call("select_sample", <<t, p>>) : t \in Queries, p \in Queries}
    /\ ret = Pending
    /\ prev = NoPrev

SelectSample ==
    /\ call.fn = "select_sample"
    /\ ret = Pending
    /\ ret' = Ok(select_sample(ETCBC_SAMPLES, call.args[1], call.args[2]))
    /\ UNCHANGED <<ETCBC_SAMPLES, CONG_CALENDAR, now, call, prev>>

NextSelect == SelectSample

SpecSelect == InitSelect /\ [][NextSelect]_vars

\* q is a non-empty query and a case-insensitive substring of text.
QueryHits(q, text) == Truthy(q) /\ contains(lower(text), lower(q.v))

PassageHits(q) == {k \in 1..Len(ETCBC_SAMPLES) : QueryHits(q, ETCBC_SAMPLES[k].reference)}

TopicHits(q) ==
    {k \in 1..Len(ETCBC_SAMPLES) :
        \E n \in 1..Len(ETCBC_SAMPLES[k].themes) : QueryHits(q, ETCBC_SAMPLES[k].themes[n])}

Least(S) == CHOOSE k \in S : \A n \in S : k <= n

\* C4: select_sample always returns an entry: the first entry whose reference
\* contains the non-empty passage, whatever the topic; failing that the first
\* entry one of whose themes contains the non-empty topic; failing that the
\* first entry of the catalog.
C4_SelectionPriority ==
    Returned("select_sample") =>
        /\ ret.exc = ""
        /\ ret.val = IF PassageHits(call.args[2]) # {}
                         THEN ETCBC_SAMPLES[Least(PassageHits(call.args[2]))]
                     ELSE IF TopicHits(call.args[1]) # {}
                         THEN ETCBC_SAMPLES[Least(TopicHits(call.args[1]))]
                     ELSE ETCBC_SAMPLES[1]

\* The passage is found in the second entry only, the topic in the first, and
\* the two entries differ.
C4_Witness ==
    /\ Returned("select_sample")
    /\ PassageHits(call.args[2]) = {2}
    /\ 1 \in TopicHits(call.args[1])
    /\ ETCBC_SAMPLES[1] # ETCBC_SAMPLES[2]
    /\ ret.val = ETCBC_SAMPLES[2]

----------------------------------------------------------------------------
(* Congregation Context Resolver *)

\* What the .get defaults make of the empty record {}.
EmptyProfile == [name |-> None, location |-> None, values |-> <<>>, significant_dates |-> <<>>]

Profile(name, significant_dates) ==
    [name |-> Some(name), location |-> Some(<<"Singapore">>),
     values |-> << <<"hospitality">> >>, significant_dates |-> significant_dates]

\* CONG_CALENDAR.get(congregation_id) or CONG_CALENDAR.get("default", {})
resolve_record(calendar, congregation_id) ==
    IF congregation_id \in DOMAIN calendar THEN calendar[congregation_id]
    ELSE IF "default" \in DOMAIN calendar THEN calendar["default"]
    ELSE EmptyProfile

\* A handler that lets a stored value that is no text escape.
caught_by_except_value_error_only(exc) == exc = "ValueError"

\* "except (ValueError, TypeError): continue"
caught_by_except(exc) == exc \in {"ValueError", "TypeError"}

\* "delta = abs((target_date.date() - event_date).days)", both being dates.
event_delta(target_date, event_date) == Abs(target_date.ord - event_date.ord)

\* The loop over record["significant_dates"] from item k on.
RECURSIVE events_loop(_, _, _, _)
events_loop(items, target_date, k, events) ==
    IF k > Len(items) THEN Ok(events)
    ELSE LET item == items[k]
             parsed == isoparse(item.date)
         IN IF parsed.exc # ""
            THEN IF caught_by_except(parsed.exc)
                 THEN events_loop(items, target_date, k + 1, events)
                 ELSE Raise(parsed.exc)
            ELSE LET delta == event_delta(target_date, parsed.val)
                 IN IF delta <= WINDOW
                    THEN events_loop(items, target_date, k + 1,
                             Append(events, [description |-> item.description,
                                             emphasis |-> item.emphasis,
                                             days_apart |-> delta]))
                    ELSE events_loop(items, target_date, k + 1, events)

\* A resolver that returns the events in the order of the profile.
events_in_profile_order(events) == events

\* sorted(events, key=lambda e: e["days_apart"])
sorted_events(events) == sort_by_days_apart(events)

congregation_context(calendar, congregation_id, target_date) ==
    LET record == resolve_record(calendar, congregation_id)
        found == events_loop(record.significant_dates, target_date, 1, <<>>)
    IN IF found.exc # "" THEN found
       ELSE Ok([name |-> record.name,
                location |-> record.location,
                values |-> record.values,
                nearby_events |-> sorted_events(found.val)])

MaxEvents == 2

CongDaySpan == 30

\* Stored dates: two days ten days apart, a day that does not exist, and a
\* value that is no text.
StoredDates ==
    {IsoText(2024, 3, 10, 0, FALSE), IsoText(2024, 3, 20, 0, FALSE),
     IsoText(2024, 2, 30, 0, FALSE), NotText}

SignificantDates ==
    {[date |-> d, description |-> <<"Anniversary">>, emphasis |-> e] :
        d \in StoredDates, e \in {None, Some(<<"Renewal">>)}}

Profiles == {Profile(<<"Fellowship">>, items) :
                items \in UNION {[1..k -> SignificantDates] : k \in 0..MaxEvents}}

\* Catalogs with a "default" profile alone, and with a "north" profile alone.
Calendars == {[id \in {key} |-> p] : key \in {"default", "north"}, p \in Profiles}

CongregationIds == {"north", "nowhere"}

TargetDates ==
    {DateTime(ymd2ord(2024, 2, 17) + i, st[1], st[2]) :
        i \in 0..CongDaySpan, st \in {<<0, FALSE>>, <<86399, TRUE>>}}

InitCong ==
    /\ ETCBC_SAMPLES = <<>>
    /\ CONG_CALENDAR \in Calendars
    /\ now = DateTime(ymd2ord(2024, 1, 1), 0, FALSE)
    /\ call \in {Call("congregation_context", <<id, d>>) : id \in CongregationIds, d \in TargetDates}
    /\ ret = Pending
    /\ prev = NoPrev

CongregationContext ==
    /\ call.fn = "congregation_context"
    /\ ret = Pending
    /\ ret' = congregation_context(CONG_CALENDAR, call.args[1], call.args[2])
    /\ UNCHANGED <<ETCBC_SAMPLES, CONG_CALENDAR, now, call, prev>>

NextCong == CongregationContext

SpecCong == InitCong /\ [][NextCong]_vars

\* C3: every event of nearby_events has days_apart <= 21 and the events are
\* ordered by non-decreasing days_apart, whatever the identifier and the date.
C3_NearbyEventsWindowedSorted ==
    (Returned("congregation_context") /\ ret.exc = "") =>
        /\ \A i \in 1..Len(ret.val.nearby_events) : ret.val.nearby_events[i].days_apart <= 21
        /\ SortedByDaysApart(ret.val.nearby_events)

\* An identifier absent from the catalog, resolved to the default profile, with
\* a later entry of the profile nearer than an earlier one.
C3_Witness ==
    /\ Returned("congregation_context") /\ ret.exc = ""
    /\ call.args[1] \notin DOMAIN CONG_CALENDAR
    /\ "default" \in DOMAIN CONG_CALENDAR
    /\ Len(ret.val.nearby_events) = 2
    /\ ret.val.nearby_events[1].days_apart < ret.val.nearby_events[2].days_apart
    /\ LET items == CONG_CALENDAR["default"].significant_dates
       IN Len(items) = 2 /\ items[1].date = IsoText(2024, 3, 20, 0, FALSE)
                          /\ items[2].date = IsoText(2024, 3, 10, 0, FALSE)

\* The profile the identifier of the call stands for.
ResolvedItems ==
    IF call.args[1] \in DOMAIN CONG_CALENDAR THEN CONG_CALENDAR[call.args[1]].significant_dates
    ELSE IF "default" \in DOMAIN CONG_CALENDAR THEN CONG_CALENDAR["default"].significant_dates
    ELSE <<>>

Malformed(item) ==
    \/ item.date.text # "iso"
    \/ item.date.m \notin 1..12
    \/ item.date.d \notin 1..DaysInMonth(item.date.y, item.date.m)

\* The event a well-formed entry stands for on the date of the call.
EventOf(item) ==
    [description |-> item.description, emphasis |-> item.emphasis,
     days_apart |-> Abs(call.args[2].ord - ymd2ord(item.date.y, item.date.m, item.date.d))]

Occurs(list, x) == Cardinality({i \in 1..Len(list) : list[i] = x})

\* C9: a malformed significant-date entry never makes congregation_context
\* fail; nearby_events holds exactly the well-formed entries of the profile
\* that lie within 21 days, each as often as the profile holds it.
C9_MalformedEntriesSkipped ==
    Returned("congregation_context") =>
        /\ ret.exc = ""
        /\ LET kept == {k \in 1..Len(ResolvedItems) :
                          /\ ~Malformed(ResolvedItems[k])
                          /\ EventOf(ResolvedItems[k]).days_apart <= 21}
           IN /\ Len(ret.val.nearby_events) = Cardinality(kept)
              /\ \A k \in kept :
                    Occurs(ret.val.nearby_events, EventOf(ResolvedItems[k]))
                        = Cardinality({n \in kept : EventOf(ResolvedItems[n]) = EventOf(ResolvedItems[k])})

\* A profile whose first entry is no text and whose second lies in the window.
C9_Witness ==
    /\ Returned("congregation_context") /\ ret.exc = ""
    /\ Len(ResolvedItems) = 2
    /\ ResolvedItems[1].date = NotText
    /\ ~Malformed(ResolvedItems[2])
    /\ Len(ret.val.nearby_events) = 1

----------------------------------------------------------------------------
(* Narrative Composer *)

HOOK_OPEN == "Imagine standing where "

HOOK_MIDDLE == " first unfolded-hearing the Hebrew cadence of "

HOOK_CLOSE == " inviting trust."

CLOSING_STATEMENT == "God's word speaks with precision and promise."

hook_of(sample) == <<HOOK_OPEN>> \o sample.reference \o <<HOOK_MIDDLE>> \o sample.hebrew_focus \o <<HOOK_CLOSE>>

\* festival_line for the nearest match.
festival_line_of(nearest) ==
    <<" We gather with ", nearest.festival, " approaching (">> \o nearest.festival_date
        \o <<"), a season inviting ", LowerTok(nearest.emphasis), ".">>

\* congregation_line for the nearest event; first["emphasis"] is a str here.
congregation_line_of(first) ==
    <<" Our own community prepares for ">> \o first.description
        \o <<" in ", ToString(first.days_apart), " days", ", aligning hearts toward ">>
        \o lower(first.emphasis.v) \o <<".">>

\* None has no .lower(): first["emphasis"].lower() raises AttributeError when
\* the entry carried no emphasis (item.get("emphasis") is None).
build_introduction(sample, audience, occasion, festival_info, congregation_info) ==
    LET hook == hook_of(sample)
        audience_line == IF Truthy(audience) THEN <<"For ">> \o audience.v \o <<", ">> ELSE <<>>
        festival_line == IF festival_info # <<>> THEN festival_line_of(festival_info[1]) ELSE <<>>
        events == congregation_info.nearby_events
        occasion_line == IF Truthy(occasion)
                         THEN <<" In this ">> \o lower(occasion.v) \o <<" we are called to listen afresh.">>
                         ELSE <<>>
    IN IF events # <<>> /\ events[1].emphasis.isNone THEN Raise("AttributeError")
       ELSE LET congregation_line == IF events # <<>> THEN congregation_line_of(events[1]) ELSE <<>>
            IN Ok(strip(hook \o festival_line \o congregation_line \o <<" ">> \o audience_line
                        \o <<CLOSING_STATEMENT>> \o occasion_line))

build_conclusion(sample, introduction) ==
    <<"The same cadence that opened our time-">> \o sample.hebrew_focus
        \o <<"-now sends us. Let the insights we traced move from study to practice: ",
             "embrace God's invitation, embody covenantal blessing, and walk toward Christlike transformation together.">>

\* The threshold below which the sections are condensed.
CONDENSE_BELOW == 25

base_points(sample) == <<
    [title |-> <<"Textual Horizon">>,
     content |-> sample.reference \o <<" anchors the lesson. Key Hebrew focus: ">> \o sample.hebrew_focus
                 \o <<" (">> \o sample.translation \o <<"). ", "Morphology: ">>
                 \o sample.morphology.part_of_speech \o <<" rooted in ">> \o sample.morphology.root \o <<".">>,
     exegetical |-> sample.exegetical_notes,
     application |-> <<"Trace the flow of the passage, inviting listeners to inhabit the narrative movement.">>],
    [title |-> <<"Linguistic Insights">>,
     content |-> <<"Lexical themes emerge, amplifying covenantal movement.">>,
     exegetical |-> sample.lexical_insights,
     application |-> <<"Highlight how the Hebrew terms reshape imagination and discipleship practices.">>],
    [title |-> <<"Formation Pathways">>,
     content |-> <<"Move from exegesis to embodied action.">>,
     exegetical |-> << <<"Map the passage's structure to contemporary rhythms (gathering, scattering, serving).">>,
                       <<"Invite testimonies or reflective prayer that echo the text's movement.">> >>,
     application |-> <<"Provide concrete steps for the congregation to live the text this week.">>] >>

\* list[:n]
take(list, n) == SubSeq(list, 1, IF n < Len(list) THEN n ELSE Len(list))

condensed_points(sample) ==
    Append(take(base_points(sample), 1),
           [title |-> <<"Concise Insight">>,
            content |-> <<"In limited time, emphasize the pivot: ">> \o sample.hebrew_focus
                        \o <<" propels us toward faithful obedience.">>,
            exegetical |-> take(sample.lexical_insights, 1),
            application |-> <<"Offer one spiritual practice and one communal action.">>])

\* A composer that also condenses a lesson of exactly 25 minutes.
construct_sections_off_by_one(sample, estimated_minutes) ==
    IF estimated_minutes <= CONDENSE_BELOW THEN condensed_points(sample) ELSE base_points(sample)

construct_sections(sample, estimated_minutes) ==
    IF estimated_minutes < CONDENSE_BELOW THEN condensed_points(sample) ELSE base_points(sample)

----------------------------------------------------------------------------
(* Runtime Estimator.  estimated_minutes * 0.65 is a product of IEEE 754    *)
(* doubles: the exact product of the integer and the double nearest 0.65,  *)
(* rounded to 53 significant bits, ties to even.  Numbers are kept in      *)
(* limbs of 18 bits, <<high, middle, low>>.                                 *)

LIMB == 2 ^ 18

\* The double nearest 0.65 is 5854679515581645 / 2^53 (0x1.4cccccccccccdp-1).
DOUBLE_065 == <<85196, 209715, 52429>>

RECURSIVE bit_length(_)
bit_length(n) == IF n = 0 THEN 0 ELSE 1 + bit_length(n \div 2)

\* n * 0.65 as a double, in units of 2^-53, for 1 <= n < 2^13.
float_times_065(n) ==
    LET c0 == n * DOUBLE_065[3]
        c1 == (n * DOUBLE_065[2]) + (c0 \div LIMB)
        p2 == (n * DOUBLE_065[1]) + (c1 \div LIMB)
        p1 == c1 % LIMB
        p0 == c0 % LIMB
        s == (36 + bit_length(p2)) - 53
        q == p0 \div (2 ^ s)
        r == p0 % (2 ^ s)
        up == s > 0 /\ (2 * r > 2 ^ s \/ (2 * r = 2 ^ s /\ q % 2 = 1))
        r0 == (IF up THEN q + 1 ELSE q) * (2 ^ s)
        r1 == p1 + (r0 \div LIMB)
    IN <<p2 + (r1 \div LIMB), r1 % LIMB, r0 % LIMB>>

\* int(x) of a non-negative double in units of 2^-53: 2^53 = 2^17 * LIMB^2.
float_to_int(x) == x[1] \div (2 ^ 17)

\* An estimator that forgets the floor of ten minutes.
estimate_runtime_unclamped(estimated_minutes, interpreted) ==
    IF interpreted THEN float_to_int(float_times_065(estimated_minutes)) ELSE estimated_minutes

estimate_runtime(estimated_minutes, interpreted) ==
    IF interpreted THEN Max(10, float_to_int(float_times_065(estimated_minutes)))
    ELSE estimated_minutes

----------------------------------------------------------------------------
(* Slide Structurer *)

OPENING_TITLE == "Opening Story"

CLOSING_TITLE == "Sending Charge"

\* The slide of the section at position idx, counted from `start`.
section_slide(idx, section) ==
    [title |-> <<ToString(idx), ". ">> \o section.title,
     bullets |-> <<section.content>> \o section.exegetical \o <<section.application>>,
     notes |-> <<"Guide discussion; invite observations and response.">>]

\* A structurer that numbers the sections from 0.
create_slides_zero_based(introduction, sections, conclusion) ==
    << [title |-> <<OPENING_TITLE>>, bullets |-> <<introduction>>,
        notes |-> <<"Welcome, frame the occasion, and read the passage aloud.">>] >>
    \o [i \in 1..Len(sections) |-> section_slide(i - 1, sections[i])]
    \o << [title |-> <<CLOSING_TITLE>>, bullets |-> <<conclusion>>,
           notes |-> <<"Summarize commitments and pray a commissioning blessing.">>] >>

create_slides(introduction, sections, conclusion) ==
    << [title |-> <<OPENING_TITLE>>, bullets |-> <<introduction>>,
        notes |-> <<"Welcome, frame the occasion, and read the passage aloud.">>] >>
    \o [i \in 1..Len(sections) |-> section_slide(i, sections[i])]
    \o << [title |-> <<CLOSING_TITLE>>, bullets |-> <<conclusion>>,
           notes |-> <<"Summarize commitments and pray a commissioning blessing.">>] >>

----------------------------------------------------------------------------
(* Narrative Composer, sections: specification and properties *)

MaxNotes == 2

NoteTexts == {<<"first">>, <<"second">>}

\* Catalog entries with up to MaxNotes exegetical notes and from one to
\* MaxNotes lexical insights.
SectionSamples ==
    {Sample(<<"A", "b">>, <<>>, notes, insights) :
        notes \in UNION {[1..k -> NoteTexts] : k \in 0..MaxNotes},
        insights \in UNION {[1..k -> NoteTexts] : k \in 1..MaxNotes}}

\* LessonRequest.estimated_minutes: Field(ge=10, le=120).
MIN_MINUTES == 10

MAX_MINUTES == 120

InitSections ==
    /\ ETCBC_SAMPLES \in {<<sample>> : sample \in SectionSamples}
    /\ CONG_CALENDAR = <<>>
    /\ now = DateTime(ymd2ord(2024, 1, 1), 0, FALSE)
    /\ call \in {Call("construct_sections", <<ETCBC_SAMPLES[1], m>>) : m \in MIN_MINUTES..MAX_MINUTES}
    /\ ret = Pending
    /\ prev = NoPrev

ConstructSections ==
    /\ call.fn = "construct_sections"
    /\ ret = Pending
    /\ ret' = Ok(construct_sections(call.args[1], call.args[2]))
    /\ UNCHANGED <<ETCBC_SAMPLES, CONG_CALENDAR, now, call, prev>>

NextSections == ConstructSections

SpecSections == InitSections /\ [][NextSections]_vars

----------------------------------------------------------------------------
(* Runtime Estimator: specification and properties *)

InitRuntime ==
    /\ ETCBC_SAMPLES = <<>>
    /\ CONG_CALENDAR = <<>>
    /\ now = DateTime(ymd2ord(2024, 1, 1), 0, FALSE)
    /\ call \in {Call("estimate_runtime", <<m, i>>) : m \in MIN_MINUTES..MAX_MINUTES, i \in BOOLEAN}
    /\ ret = Pending
    /\ prev = NoPrev

EstimateRuntime ==
    /\ call.fn = "estimate_runtime"
    /\ ret = Pending
    /\ ret' = Ok(estimate_runtime(call.args[1], call.args[2]))
    /\ UNCHANGED <<ETCBC_SAMPLES, CONG_CALENDAR, now, call, prev>>

NextRuntime == EstimateRuntime

SpecRuntime == InitRuntime /\ [][NextRuntime]_vars

\* C6: estimate_runtime(d, false) = d and estimate_runtime(d, true) =
\* max(10, floor(65 * d / 100)), so the result is at least 10 and at most d.
C6_RuntimeEstimate ==
    Returned("estimate_runtime") =>
        LET d == call.args[1]
        IN /\ ~call.args[2] => ret.val = d
           /\ call.args[2] => ret.val = Max(10, (65 * d) \div 100)
           /\ 10 <= ret.val /\ ret.val <= d

\* estimate(35, true) = 22, a product that is no integer.
C6_Witness ==
    /\ Returned("estimate_runtime")
    /\ call.args = <<35, TRUE>>
    /\ ret.val = 22

----------------------------------------------------------------------------
(* Slide Structurer: specification and properties *)

MaxSections == 2

SlideSections ==
    {[title |-> t, content |-> <<"content">>, exegetical |-> e, application |-> <<"application">>] :
        t \in {<<"Horizon">>, <<"Insight">>},
        e \in UNION {[1..k -> NoteTexts] : k \in 0..MaxNotes}}

InitSlides ==
    /\ ETCBC_SAMPLES = <<>>
    /\ CONG_CALENDAR = <<>>
    /\ now = DateTime(ymd2ord(2024, 1, 1), 0, FALSE)
    /\ call \in {Call("create_slides", <<i, sections, <<"conclusion">> >>) :
                    i \in {<<>>, <<"introduction">>},
                    sections \in UNION {[1..k -> SlideSections] : k \in 0..MaxSections}}
    /\ ret = Pending
    /\ prev = NoPrev

CreateSlides ==
    /\ call.fn = "create_slides"
    /\ ret = Pending
    /\ ret' = Ok(create_slides(call.args[1], call.args[2], call.args[3]))
    /\ UNCHANGED <<ETCBC_SAMPLES, CONG_CALENDAR, now, call, prev>>

NextSlides == CreateSlides

SpecSlides == InitSlides /\ [][NextSlides]_vars

\* C7: create_slides returns len(sections) + 2 slides: "Opening Story" with the
\* introduction as its only bullet, then for the i-th section the slide
\* "i. <title>" whose bullets are the content, the exegetical notes in order
\* and the application, then "Sending Charge" with the conclusion alone.
C7_SlideStructure ==
    Returned("create_slides") =>
        LET sections == call.args[2]
            slides == ret.val
        IN /\ Len(slides) = Len(sections) + 2
           /\ slides[1].title = <<"Opening Story">>
           /\ slides[1].bullets = <<call.args[1]>>
           /\ slides[Len(slides)].title = <<"Sending Charge">>
           /\ slides[Len(slides)].bullets = <<call.args[3]>>
           /\ \A i \in 1..Len(sections) :
                 /\ slides[i + 1].title = <<ToString(i), ". ">> \o sections[i].title
                 /\ Len(slides[i + 1].bullets) = Len(sections[i].exegetical) + 2
                 /\ slides[i + 1].bullets[1] = sections[i].content
                 /\ \A n \in 1..Len(sections[i].exegetical) :
                       slides[i + 1].bullets[n + 1] = sections[i].exegetical[n]
                 /\ slides[i + 1].bullets[Len(slides[i + 1].bullets)] = sections[i].application

\* Two different sections, the first with two different exegetical notes.
C7_Witness ==
    /\ Returned("create_slides")
    /\ Len(call.args[2]) = 2
    /\ call.args[2][1].title # call.args[2][2].title
    /\ Len(call.args[2][1].exegetical) = 2
    /\ call.args[2][1].exegetical[1] # call.args[2][1].exegetical[2]
    /\ Len(ret.val) = 4

----------------------------------------------------------------------------
(* Narrative Composer, introduction: specification and properties *)

\* The contexts congregation_context produces over the catalogs above.
IntroContexts ==
    {congregation_context(c, id, d).val :
        c \in Calendars, id \in CongregationIds, d \in TargetDates}

\* The matches of a day with festivals near and of a day with none.
IntroFestivals ==
    {hebrew_festival_matches(DateTime(ymd2ord(2024, mo, 20), 0, FALSE)).val : mo \in {2, 8}}

Audiences == {None, Some(<<>>), Some(<<"youth">>)}

Occasions == {None, Some(<<"Retreat">>)}

InitIntro ==
    /\ ETCBC_SAMPLES = << Sample(<<"A", "b">>, <<>>, << <<"first">> >>, << <<"second">> >>) >>
    /\ CONG_CALENDAR = <<>>
    /\ now = DateTime(ymd2ord(2024, 1, 1), 0, FALSE)
    /\ call \in {Call("build_introduction", <<ETCBC_SAMPLES[1], a, o, f, c>>) :
                    a \in Audiences, o \in Occasions, f \in IntroFestivals, c \in IntroContexts}
    /\ ret = Pending
    /\ prev = NoPrev

BuildIntroduction ==
    /\ call.fn = "build_introduction"
    /\ ret = Pending
    /\ ret' = build_introduction(call.args[1], call.args[2], call.args[3], call.args[4], call.args[5])
    /\ UNCHANGED <<ETCBC_SAMPLES, CONG_CALENDAR, now, call, prev>>

NextIntro == BuildIntroduction

SpecIntro == InitIntro /\ [][NextIntro]_vars

\* What precedes the congregation clause: the hook and the festival clause.
BeforeEventClause ==
    hook_of(call.args[1])
        \o (IF call.args[4] # <<>> THEN festival_line_of(call.args[4][1]) ELSE <<>>)

\* The clause naming the nearest event and its distance, with the lowercased
\* emphasis when the event has one.
EventClause(first) ==
    <<" Our own community prepares for ">> \o first.description
        \o <<" in ", ToString(first.days_apart), " days">>
        \o (IF first.emphasis.isNone THEN <<>>
             ELSE <<", aligning hearts toward ">> \o lower(first.emphasis.v) \o <<".">>)

IntroductionNamesEvent ==
    LET first == call.args[5].nearby_events[1]
        head == BeforeEventClause \o EventClause(first)
        audience_line == IF Truthy(call.args[2]) THEN <<"For ">> \o call.args[2].v \o <<", ">> ELSE <<>>
    IN /\ ret.exc = ""
       /\ Len(ret.val) >= Len(head)
       /\ SubSeq(ret.val, 1, Len(head)) = head
       /\ contains(SubSeq(ret.val, Len(head) + 1, Len(ret.val)),
                    audience_line \o <<CLOSING_STATEMENT>>)

\* C10: for a context with a nearby event, with or without an emphasis,
\* build_introduction returns an introduction with the clause naming the
\* nearest event after the hook and the festival clause and before the audience
\* clause and the closing statement.
C10_IntroductionNamesEvent ==
    (Returned("build_introduction") /\ call.args[5].nearby_events # <<>>)
        => IntroductionNamesEvent

\* The same for the contexts whose nearest event carries an emphasis.
C10_WithEmphasis ==
    (Returned("build_introduction") /\ call.args[5].nearby_events # <<>>
        /\ ~call.args[5].nearby_events[1].emphasis.isNone)
        => IntroductionNamesEvent

----------------------------------------------------------------------------
(* The /api/generate handler *)

\* payload.date as the handler sees it: None, "" or a text.
EmptyText == [text |-> "empty", y |-> 0, m |-> 0, d |-> 0, secs |-> 0, tz |-> FALSE]

date_given(date) == ~date.isNone /\ date.v.text # "empty"

\* A handler that never reads payload.date.
target_date_from_clock(payload, utcnow) == Ok(utcnow)

\* target_date: datetime.utcnow(), or the parsed payload.date when one is given;
\* a date that does not parse is answered with 400.
target_date_of(payload, utcnow) ==
    IF ~date_given(payload.date) THEN Ok(utcnow)
    ELSE LET parsed == isoparse(payload.date.v)
         IN IF parsed.exc # "" THEN Raise("HTTP 400 Invalid date format") ELSE parsed

\* search_etcbc: the items of the remote search when it answers with some,
\* else the first `limit` = 5 samples of the catalog.
search_etcbc(samples, remote_items) ==
    IF remote_items # <<>> THEN take(remote_items, 5)
    ELSE take([k \in 1..Len(samples) |->
                  [name |-> samples[k].reference,
                   path |-> <<"samples/">> \o lower(samples[k].book) \o <<".json">>,
                   html_url |-> <<"https://github.com/ETCBC/bhsa">>,
                   repository |-> <<"ETCBC/bhsa">>]], 5)

\* lesson_type.replace("_", " ").title()
lesson_type_title(lesson_type) ==
    CASE lesson_type = "expository" -> "Expository"
      [] lesson_type = "topical" -> "Topical"
      [] lesson_type = "bible_study" -> "Bible Study"
      [] lesson_type = "personal" -> "Personal"

\* create_pptx returns the path of the file it wrote; file_id is uuid4().hex.
pptx_download_of(file_id) == <<"/api/pptx/", "lesson_", file_id, ".pptx">>

\* The one value of a singleton set: binds the result of a call to a name.
TheOne(S) == CHOOSE x \in S : TRUE

\* generate_lesson from the composed introduction on: conclusion, sections,
\* slides, runtime and the response.
lesson_response(payload, samples, sample, festivals, congregation, introduction, file_id, remote_items) ==
    LET conclusion == build_conclusion(sample, introduction)
        sections == construct_sections(sample, payload.estimated_minutes)
        slides == create_slides(introduction, sections, conclusion)
        runtime_minutes == estimate_runtime(payload.estimated_minutes, payload.interpreted)
    IN Ok([lesson |-> [title |-> sample.reference \o <<" - ", lesson_type_title(payload.lesson_type)>>,
                       introduction |-> introduction,
                       conclusion |-> conclusion,
                       sections |-> sections,
                       slides |-> slides,
                       canvas |-> [introduction |-> introduction, sections |-> sections,
                                   conclusion |-> conclusion],
                       hebrew_focus |-> sample.hebrew_focus,
                       morphology |-> sample.morphology,
                       themes |-> sample.themes],
           festivals |-> festivals,
           congregation |-> congregation,
           github_sources |-> search_etcbc(samples, remote_items),
           runtime_minutes |-> runtime_minutes,
           pptx_download |-> pptx_download_of(file_id)])

\* generate_lesson from the resolved target_date on; an exception raised by a
\* step ends the request.
lesson_for_date(payload, samples, calendar, target_date, file_id, remote_items) ==
    TheOne({
        IF festivals.exc # "" THEN festivals ELSE
        TheOne({
            IF congregation.exc # "" THEN congregation ELSE
            TheOne({
                IF introduction.exc # "" THEN introduction
                ELSE lesson_response(payload, samples, sample, festivals.val,
                                     congregation.val, introduction.val, file_id, remote_items)
                : introduction \in {build_introduction(sample, payload.audience, payload.occasion,
                                                       festivals.val, congregation.val)} })
            : congregation \in {congregation_context(calendar, payload.congregation_id,
                                                     target_date)} })
        : sample \in {select_sample(samples, payload.topic, payload.passage)},
          festivals \in {hebrew_festival_matches(target_date)} })

generate_lesson(payload, samples, calendar, utcnow, file_id, remote_items) ==
    IF ~Truthy(payload.topic) /\ ~Truthy(payload.passage)
    THEN Raise("HTTP 400 Topic or passage required")
    ELSE TheOne({ IF target.exc # "" THEN target
                  ELSE lesson_for_date(payload, samples, calendar, target.val,
                                       file_id, remote_items)
                  : target \in {target_date_of(payload, utcnow)} })

\* The clock advances in steps of twelve hours, ClockTicks times at most.
ClockTicks == 2

ClockStart == DateTime(ymd2ord(2024, 3, 1), 0, FALSE)

Elapsed == ((now.ord - ClockStart.ord) * 2) + (now.secs \div 43200)

FileIds == {"0f3a", "9c1e"}

RemoteItems ==
    {<<>>, << [name |-> <<"genesis.tf">>, path |-> <<"tf/genesis.tf">>,
               html_url |-> <<"https://github.com/ETCBC/bhsa/blob/master/tf/genesis.tf">>,
               repository |-> <<"ETCBC/bhsa">>] >>}

Payloads ==
    [audience : {None, Some(<<"youth">>)},
     occasion : {Some(<<"Retreat">>)},
     date : {None, Some(EmptyText), Some(JunkText), Some(IsoText(2024, 3, 5, 0, FALSE)),
             Some(IsoText(2024, 3, 5, 36000, TRUE))},
     topic : {None, Some(<<"a">>)},
     passage : {None, Some(<<"B">>)},
     lesson_type : {"bible_study"},
     estimated_minutes : {20, 35},
     interpreted : {TRUE},
     congregation_id : {"default", "north"}]

\* A catalog of two samples and a calendar of two congregations; the event of
\* the "north" congregation carries no emphasis.
LessonSamples ==
    << Sample(<<"A", "b">>, << <<"a">> >>, << <<"first">> >>, << <<"first">>, <<"second">> >>),
       Sample(<<"b", "a">>, <<>>, <<>>, << <<"second">> >>) >>

LessonCalendar ==
    [id \in {"default", "north"} |->
        Profile(<<"Fellowship">>,
                << [date |-> IsoText(2024, 3, 10, 0, FALSE),
                    description |-> <<"Anniversary">>,
                    emphasis |-> IF id = "default" THEN Some(<<"Renewal">>) ELSE None] >>)]

InitLesson ==
    /\ ETCBC_SAMPLES = LessonSamples
    /\ CONG_CALENDAR = LessonCalendar
    /\ now = ClockStart
    /\ call \in {Call("generate_lesson", <<payload>>) : payload \in Payloads}
    /\ ret = Pending
    /\ prev = NoPrev

\* POST /api/generate
GenerateLesson ==
    /\ call.fn = "generate_lesson"
    /\ ret = Pending
    /\ \E file_id \in FileIds, remote_items \in RemoteItems :
          ret' = generate_lesson(call.args[1], ETCBC_SAMPLES, CONG_CALENDAR, now, file_id, remote_items)
    /\ UNCHANGED <<ETCBC_SAMPLES, CONG_CALENDAR, now, call, prev>>

\* The client sends the same request once more.
Resend ==
    /\ call.fn = "generate_lesson"
    /\ ret # Pending
    /\ prev = NoPrev
    /\ prev' = [resp |-> ret, at |-> now]
    /\ ret' = Pending
    /\ UNCHANGED <<ETCBC_SAMPLES, CONG_CALENDAR, now, call>>

\* Time passes while no request is being served.
Tick ==
    /\ ret = Pending
    /\ Elapsed < ClockTicks
    /\ now' = IF now.secs = 0 THEN DateTime(now.ord, 43200, FALSE)
               ELSE DateTime(now.ord + 1, 0, FALSE)
    /\ UNCHANGED <<ETCBC_SAMPLES, CONG_CALENDAR, call, ret, prev>>

NextLesson == GenerateLesson \/ Resend \/ Tick

SpecLesson == InitLesson /\ [][NextLesson]_vars

BothAnswered == call.fn = "generate_lesson" /\ ret.exc # "pending" /\ prev.resp.exc # "pending"

\* The two responses end alike and carry the same introduction, conclusion and
\* slides.
SameLessonText(a, b) ==
    /\ a.exc = b.exc
    /\ a.exc = "" =>
          /\ a.val.lesson.introduction = b.val.lesson.introduction
          /\ a.val.lesson.conclusion = b.val.lesson.conclusion
          /\ a.val.lesson.slides = b.val.lesson.slides

\* C8 as stated: two invocations of generate_lesson with identical request
\* input produce identical introduction, conclusion and slides.
C8_IdenticalRequestsSameText == BothAnswered => SameLessonText(ret, prev.resp)

\* C8 amended: they do when the request names its date, or when both
\* invocations read the same day from the clock; then the lesson, the festival
\* matches, the congregation context and the runtime are all identical, and
\* only the artifact identifier and the code-search sources may differ.
C8_SameReferenceDateSameText ==
    (BothAnswered /\ (date_given(call.args[1].date) \/ prev.at.ord = now.ord)) =>
        /\ SameLessonText(ret, prev.resp)
        /\ ret.exc = "" =>
              /\ ret.val.lesson = prev.resp.val.lesson
              /\ ret.val.festivals = prev.resp.val.festivals
              /\ ret.val.congregation = prev.resp.val.congregation
              /\ ret.val.runtime_minutes = prev.resp.val.runtime_minutes

\* A request that names its date, answered on two different days with two
\* different artifact identifiers.
C8_Witness ==
    /\ BothAnswered
    /\ date_given(call.args[1].date)
    /\ ret.exc = ""
    /\ prev.at.ord # now.ord
    /\ ret.val.pptx_download # prev.resp.val.pptx_download
    /\ ret.val.lesson.slides = prev.resp.val.lesson.slides

====
